---- MODULE Spec2Model ----
(***************************************************************************)
(* Model of the quote / commit / submit pipeline of agno-near-zcash:       *)
(*   src/agno-near-zcash/src/near_zcash_intents.py  (registry, codec,      *)
(*       request builder, quote fetcher, selector, commitment builder,     *)
(*       publisher, orchestrator intent_swap_zec)                          *)
(*   src/agno-near-zcash/src/zec_agent.py           (ZcashAgent wrappers)  *)
(*                                                                         *)
(* Amounts.  On-chain amounts are decimal strings of Python integers; a    *)
(* string is represented by the integer it spells (str and int are inverse *)
(* on canonical strings), held as an arbitrary-size natural because the    *)
(* values exceed 2^31.  Human amounts are Python floats (IEEE binary64):   *)
(* a float is sign, 53-bit significand and binary exponent, and every      *)
(* conversion rounds to nearest, ties to even, as CPython does.  The       *)
(* exponent range (overflow to inf, subnormals) is not represented: the    *)
(* amounts of the model stay far inside it.                                *)
(***************************************************************************)
EXTENDS Integers, Sequences, FiniteSets, TLC

(***************************************************************************)
(* Arbitrary-size naturals: little-endian sequences of limbs in base 2^15, *)
(* without high zero limbs (zero is the empty sequence).                   *)
(***************************************************************************)
LimbBase == 32768

LimbBits == 15

BigNorm(a) ==
    LET nz == {i \in 1..Len(a) : a[i] # 0 /\ \A j \in (i + 1)..Len(a) : a[j] = 0}
    IN  IF nz = {} THEN <<>> ELSE SubSeq(a, 1, CHOOSE i \in nz : TRUE)

\* a natural below 2^31 as limbs
BigOfInt(n) ==
    BigNorm(<<n % LimbBase, (n \div LimbBase) % LimbBase, n \div (LimbBase * LimbBase)>>)

RECURSIVE BigAddCarry(_, _, _, _)
BigAddCarry(a, b, i, c) ==
    IF i > Len(a) /\ i > Len(b) THEN (IF c = 0 THEN <<>> ELSE <<c>>)
    ELSE LET s == (IF i <= Len(a) THEN a[i] ELSE 0) + (IF i <= Len(b) THEN b[i] ELSE 0) + c
         IN  <<s % LimbBase>> \o BigAddCarry(a, b, i + 1, s \div LimbBase)

BigAdd(a, b) == BigNorm(BigAddCarry(a, b, 1, 0))

RECURSIVE BigMulSmallCarry(_, _, _, _)
BigMulSmallCarry(a, k, i, c) ==
    IF i > Len(a) THEN BigOfInt(c)
    ELSE LET p == a[i] * k + c
         IN  <<p % LimbBase>> \o BigMulSmallCarry(a, k, i + 1, p \div LimbBase)

\* a * k for a limb-sized k (0 <= k < 2^15)
BigMulSmall(a, k) == BigNorm(BigMulSmallCarry(a, k, 1, 0))

RECURSIVE BigMulFrom(_, _, _)
BigMulFrom(a, b, i) ==
    \* a * (b[i] + b[i+1] * 2^15 + ...)
    IF i > Len(b) THEN <<>>
    ELSE LET r == BigMulFrom(a, b, i + 1)
         IN  BigAdd(BigMulSmall(a, b[i]), IF r = <<>> THEN <<>> ELSE <<0>> \o r)

BigMul(a, b) == IF a = <<>> THEN <<>> ELSE BigMulFrom(a, b, 1)

RECURSIVE BigOfDigitsAcc(_, _, _)
BigOfDigitsAcc(ds, i, acc) ==
    \* the test on acc makes TLC evaluate it at every step, not as one nested chain
    IF Len(acc) >= 0 /\ i > Len(ds) THEN acc
    ELSE BigOfDigitsAcc(ds, i + 1, BigAdd(BigMulSmall(acc, 10), BigOfInt(ds[i])))

\* int("d1 d2 ... dn"): the value of a decimal digit string
BigOfDigits(ds) == BigOfDigitsAcc(ds, 1, <<>>)

\* 10 ** d
BigPow10(d) == BigOfDigits(<<1>> \o [i \in 1..d |-> 0])

\* bit i (1 = most significant) of a limb
LimbBit(x, i) == (x \div 2 ^ (LimbBits - i)) % 2

\* the binary digits of a, most significant first, without leading zeros
BigBits(a) ==
    IF a = <<>> THEN <<>>
    ELSE LET n     == Len(a)
             raw   == [k \in 1..(LimbBits * n) |->
                          LimbBit(a[n - ((k - 1) \div LimbBits)], ((k - 1) % LimbBits) + 1)]
             first == CHOOSE k \in 1..LimbBits :
                          raw[k] = 1 /\ \A j \in 1..(k - 1) : raw[j] = 0
         IN  SubSeq(raw, first, LimbBits * n)

RECURSIVE BitsValue(_, _, _)
BitsValue(bs, lo, hi) ==
    \* the number spelled by bs[lo..hi]
    IF lo > hi THEN 0 ELSE bs[hi] + 2 * BitsValue(bs, lo, hi - 1)

\* the natural spelled by the bits bs (most significant first)
BigOfBits(bs) ==
    LET n  == Len(bs)
        nl == (n + LimbBits - 1) \div LimbBits
        lo(j) == IF n - LimbBits * j + 1 < 1 THEN 1 ELSE n - LimbBits * j + 1
    IN  BigNorm([j \in 1..nl |-> BitsValue(bs, lo(j), n - LimbBits * (j - 1))])

RECURSIVE BigLessFrom(_, _, _)
BigLessFrom(a, b, i) ==
    \* a and b of equal length, compared from limb i downwards
    IF i = 0 THEN FALSE
    ELSE IF a[i] # b[i] THEN a[i] < b[i]
    ELSE BigLessFrom(a, b, i - 1)

BigLess(a, b) ==
    IF Len(a) # Len(b) THEN Len(a) < Len(b) ELSE BigLessFrom(a, b, Len(a))

RECURSIVE BigSubBorrow(_, _, _, _)
BigSubBorrow(a, b, i, c) ==
    IF i > Len(a) THEN <<>>
    ELSE LET d == a[i] - (IF i <= Len(b) THEN b[i] ELSE 0) - c
         IN  <<d % LimbBase>> \o BigSubBorrow(a, b, i + 1, IF d < 0 THEN 1 ELSE 0)

\* a - b for a >= b
BigSub(a, b) == BigNorm(BigSubBorrow(a, b, 1, 0))

RECURSIVE BigDivStep(_, _, _, _, _)
BigDivStep(nb, d, i, q, r) ==
    \* long division, one bit of the dividend nb per step; the tests on q and r
    \* make TLC evaluate them at every step
    IF Len(q) >= 0 /\ Len(r) >= 0 /\ i > Len(nb) THEN [q |-> q, r |-> r]
    ELSE LET r2 == BigAdd(BigMulSmall(r, 2), IF nb[i] = 1 THEN <<1>> ELSE <<>>)
             ge == ~BigLess(r2, d)
         IN  BigDivStep(nb, d, i + 1, Append(q, IF ge THEN 1 ELSE 0),
                        IF ge THEN BigSub(r2, d) ELSE r2)

\* quotient (as bits, with leading zeros) and remainder of the dividend spelled
\* by the bits nb by d > 0
BigDivBits(nb, d) == BigDivStep(nb, d, 1, <<>>, <<>>)

\* the bit string bs without its leading zeros
StripLeadingZeros(bs) ==
    LET ones == {i \in 1..Len(bs) : bs[i] = 1}
    IN  IF ones = {} THEN <<>>
        ELSE SubSeq(bs, CHOOSE i \in ones : \A j \in ones : i <= j, Len(bs))

(***************************************************************************)
(* Python floats.  A float is [neg, m, e]: (-1)^neg * m * 2^e with m a     *)
(* natural below 2^53, kept canonical (m odd, or m = 0 and e = 0) so that  *)
(* equal floats are equal records.                                         *)
(***************************************************************************)
MantissaBits == 53

\* how many zeros end the non-empty bit string bs, whose first bit is 1
TrailingZeroBits(bs) ==
    LET n == Len(bs)
    IN  CHOOSE t \in 0..(n - 1) : bs[n - t] = 1 /\ \A j \in 1..t : bs[n - j + 1] = 0

\* the float neg * bs * 2^e for a significand of at most 54 bits ending in zeros
\* beyond the 53rd, made canonical
FloatCanon(neg, bs, e) ==
    IF bs = <<>> THEN [neg |-> FALSE, m |-> <<>>, e |-> 0]
    ELSE LET t == TrailingZeroBits(bs)
         IN  [neg |-> neg, m |-> BigOfBits(SubSeq(bs, 1, Len(bs) - t)), e |-> e + t]

\* round the exact value neg * bs * 2^e (bs: bits, most significant first, no
\* leading zero) to the nearest float, ties to even
FloatRound(neg, bs, e) ==
    IF Len(bs) <= MantissaBits THEN FloatCanon(neg, bs, e)
    ELSE LET keep   == SubSeq(bs, 1, MantissaBits)
             rest   == SubSeq(bs, MantissaBits + 1, Len(bs))
             sticky == \E i \in 2..Len(rest) : rest[i] = 1
             up     == rest[1] = 1 /\ (sticky \/ keep[MantissaBits] = 1)
             kept   == IF up THEN BigBits(BigAdd(BigOfBits(keep), <<1>>)) ELSE keep
         IN  FloatCanon(neg, kept, e + Len(rest))

\* float(n) for a Python int n >= 0 (also the conversion of the int operand in
\* float * int)
FloatOfBig(n) == FloatRound(FALSE, BigBits(n), 0)

\* x * y on floats
FloatMul(x, y) ==
    FloatRound(x.neg # y.neg, BigBits(BigMul(x.m, y.m)), x.e + y.e)

\* x / y on floats, y not zero: the quotient is taken to at least 55 bits, and a
\* remainder that is not zero is a last bit below them, so that the rounding sees
\* on which side of a tie the exact quotient lies
FloatDiv(x, y) ==
    IF x.m = <<>> THEN [neg |-> FALSE, m |-> <<>>, e |-> 0]
    ELSE LET bx  == BigBits(x.m)
             by  == BigBits(y.m)
             pad == IF Len(by) + MantissaBits + 2 > Len(bx)
                    THEN Len(by) + MantissaBits + 2 - Len(bx) ELSE 0
             d   == BigDivBits(bx \o [i \in 1..pad |-> 0], y.m)
             q   == StripLeadingZeros(d.q)
         IN  IF d.r = <<>>
             THEN FloatRound(x.neg # y.neg, q, x.e - pad - y.e)
             ELSE FloatRound(x.neg # y.neg, Append(q, 1), x.e - pad - y.e - 1)

\* x + y on floats that are not negative
FloatAdd(x, y) ==
    LET lo == IF x.e < y.e THEN x.e ELSE y.e
        ax == BigOfBits(BigBits(x.m) \o [i \in 1..(x.e - lo) |-> 0])
        ay == BigOfBits(BigBits(y.m) \o [i \in 1..(y.e - lo) |-> 0])
    IN  FloatRound(FALSE, BigBits(BigAdd(ax, ay)), lo)

\* int(x): truncation toward zero, as [neg, mag]
IntOfFloat(x) ==
    LET bs  == BigBits(x.m)
        mag == IF x.e >= 0
               THEN BigOfBits(bs \o [i \in 1..x.e |-> 0])
               ELSE IF -x.e >= Len(bs) THEN <<>>
               ELSE BigOfBits(SubSeq(bs, 1, Len(bs) + x.e))
    IN  [neg |-> x.neg /\ mag # <<>>, mag |-> mag]

\* x < y on floats that are not negative (the keys select_best_option compares)
FloatLess(x, y) ==
    LET bx == BigBits(x.m)
        by == BigBits(y.m)
        \* align both significands to the smaller exponent
        lo == IF x.e < y.e THEN x.e ELSE y.e
        ax == BigOfBits(bx \o [i \in 1..(x.e - lo) |-> 0])
        ay == BigOfBits(by \o [i \in 1..(y.e - lo) |-> 0])
    IN  BigLess(ax, ay)

\* str(n) of a Python int: the sign prefix and the magnitude the digits spell
StrOfInt(n) == [sign |-> IF n.neg THEN "-" ELSE "", mag |-> n.mag]

\* '-' + s
Minus(s) == [sign |-> "-" \o s.sign, mag |-> s.mag]

\* float(s) for a string of decimal digits (a quote's amount_out)
FloatOfStr(s) == FloatOfBig(s.mag)

\* the string of decimal digits ds, e.g. <<1, 5>> for "15"
Digits(ds) == [sign |-> "", mag |-> BigOfDigits(ds)]

(***************************************************************************)
(* Asset registry and amount codec (near_zcash_intents.py).                *)
(***************************************************************************)
ASSET_MAP ==
    [USDC |-> [token_id |-> "a0b86991c6218b36c1d19d4a2e9eb0ce3606eb48.factory.bridge.near",
               omft     |-> "eth-0xa0b86991c6218b36c1d19d4a2e9eb0ce3606eb48.omft.near",
               decimals |-> 6],
     NEAR |-> [token_id |-> "wrap.near",
               decimals |-> 24],
     ZEC  |-> [token_id |-> "zcash.factory.bridge.near",
               omft     |-> "zcash-token.omft.near",
               decimals |-> 8,
               shielded |-> TRUE]]

\* the symbols a caller may name: the registered ones and one that is not
Symbols == DOMAIN ASSET_MAP \cup {"DOGE"}

\* the registry's privacy-capable flag ('shielded': True), absent meaning false
PrivacyCapable(token) ==
    /\ token \in DOMAIN ASSET_MAP
    /\ "shielded" \in DOMAIN ASSET_MAP[token]
    /\ ASSET_MAP[token].shielded

\* get_asset_id, for a registered token (any other raises KeyError)
get_asset_id(token) ==
    IF token = "NEAR" THEN "near"
    ELSE IF token = "ZEC" THEN "nep141:" \o ASSET_MAP[token].token_id
    ELSE IF token = "USDC"
         THEN "nep141:a0b86991c6218b36c1d19d4a2e9eb0ce3606eb48.factory.bridge.near"
    ELSE "nep141:" \o ASSET_MAP[token].token_id

\* 10 ** decimals as the float operand of amount * 10 ** decimals, for the
\* precisions of the registry
TenToThe ==
    [d \in {ASSET_MAP[t].decimals : t \in DOMAIN ASSET_MAP} |-> FloatOfBig(BigPow10(d))]

\* to_decimals: str(int(amount * 10 ** decimals))
to_decimals(amount, decimals) ==
    StrOfInt(IntOfFloat(FloatMul(amount, TenToThe[decimals])))

\* from_decimals: float(amount) / 10 ** decimals, the int operand converted to
\* float before the division
from_decimals(amount, decimals) ==
    FloatDiv(FloatOfStr(amount), TenToThe[decimals])

\* the float amounts callers pass: -1.0, 0.0, 0.5
MinusOne == [neg |-> TRUE, m |-> <<1>>, e |-> 0]

Zero == [neg |-> FALSE, m |-> <<>>, e |-> 0]

Half == [neg |-> FALSE, m |-> <<1>>, e |-> -1]

Amounts == {MinusOne, Zero, Half}

\* to_decimals(amount, ASSET_MAP[token]["decimals"]) for the amounts callers pass
\* and the registered tokens, as a table
AmountOnChain ==
    [token \in DOMAIN ASSET_MAP, amount \in Amounts |->
        to_decimals(amount, ASSET_MAP[token].decimals)]

\* the positive amounts converted to on-chain form and back: n / 10
MaxTenths == 30

PositiveAmounts ==
    {FloatDiv(FloatOfBig(BigOfInt(n)), FloatOfBig(BigOfInt(10))) : n \in 1..MaxTenths}

\* |x - y| < 10 ** -decimals, exactly, for floats that are not negative: with
\* both significands at the smaller exponent lo, |ax - ay| * 2^lo < 10^-decimals
DiffersByLessThanOneUnit(x, y, decimals) ==
    LET lo   == IF x.e < y.e THEN x.e ELSE y.e
        ax   == BigOfBits(BigBits(x.m) \o [i \in 1..(x.e - lo) |-> 0])
        ay   == BigOfBits(BigBits(y.m) \o [i \in 1..(y.e - lo) |-> 0])
        diff == IF BigLess(ax, ay) THEN BigSub(ay, ax) ELSE BigSub(ax, ay)
    IN  \/ diff = <<>>
        \/ /\ lo < 0
           /\ BigLess(BigMul(diff, BigPow10(decimals)),
                      BigOfBits(<<1>> \o [i \in 1..(-lo) |-> 0]))

\* amount <= 0 on floats
NonPositive(amount) == amount.neg \/ amount.m = <<>>

(***************************************************************************)
(* Outcomes of a call: a normal return or a raised exception.  Exceptions  *)
(* are named by the spec's category where the code raises ValueError with  *)
(* a message of its own, and by their Python class otherwise.              *)
(***************************************************************************)
NoOutcome == [kind |-> "none", error |-> ""]

Return == [kind |-> "return", error |-> ""]

Raise(e) == [kind |-> "raise", error |-> e]

(***************************************************************************)
(* IntentRequest: the request dict is a function from the keys set so far. *)
(***************************************************************************)
EmptyRequest == <<>>

Put(d, k, v) == [x \in DOMAIN d \cup {k} |-> IF x = k THEN v ELSE d[x]]

\* IntentRequest.set_asset_in: the outcome and the request dict afterwards
set_asset_in(req, asset_name, amount) ==
    IF asset_name \notin DOMAIN ASSET_MAP
    THEN [outcome |-> Raise("UnsupportedAsset"), request |-> req]
    ELSE [outcome |-> Return,
          request |-> Put(Put(req, "assetIn", get_asset_id(asset_name)),
                          "amountIn", AmountOnChain[asset_name, amount])]

\* a set_asset_out that takes any symbol as it is, without the registry
set_asset_out_unchecked(req, asset_name, amount) ==
    [outcome |-> Return, request |-> Put(req, "assetOut", asset_name)]

\* IntentRequest.set_asset_out: amount is <<>> (None) or <<a>>
set_asset_out(req, asset_name, amount) ==
    IF asset_name \notin DOMAIN ASSET_MAP
    THEN [outcome |-> Raise("UnsupportedAsset"), request |-> req]
    ELSE LET r == Put(req, "assetOut", get_asset_id(asset_name))
         IN  [outcome |-> Return,
              request |-> IF amount # <<>>
                          THEN Put(r, "amountOut", AmountOnChain[asset_name, amount[1]])
                          ELSE r]

\* the min_deadline_ms of IntentRequest() when the caller passes none
DefaultMinDeadlineMs == 120000

\* what a caller passes to IntentRequest(request, min_deadline_ms): nothing, or a
\* request dict with a slippage and a deadline of its own
BuilderArgs ==
    { [request |-> EmptyRequest, min_deadline_ms |-> DefaultMinDeadlineMs],
      [request |-> [slippage |-> "0.01"], min_deadline_ms |-> 60000] }

\* the keys serialize reads with self.request[...]
RequiredKeys == {"assetIn", "assetOut", "amountIn"}

\* lines 266-284: the dict serialize builds
SerializedRequest(req, ms) ==
    LET amounts == [k \in {"in"} \cup (IF "amountOut" \in DOMAIN req THEN {"out"} ELSE {}) |->
                       IF k = "in" THEN req.amountIn ELSE req.amountOut]
        result  == [assets   |-> [k \in {"in", "out"} |->
                                     IF k = "in" THEN req.assetIn ELSE req.assetOut],
                    amounts  |-> amounts,
                    deadline |-> [type |-> "relative", ms |-> ms]]
    IN  IF "slippage" \in DOMAIN req THEN Put(result, "slippage", req.slippage) ELSE result

\* a serialize that returns a live view of the builder instead of a new dict
serialize_view(req, ms) ==
    IF RequiredKeys \subseteq DOMAIN req
    THEN [outcome |-> Return, object |-> <<[ref |-> "builder"]>>, request |-> req]
    ELSE [outcome |-> Raise("KeyError"), object |-> <<>>, request |-> req]

\* IntentRequest.serialize: the outcome, the object returned (a new dict, made of
\* strings and new dicts) and the request dict afterwards
serialize(req, ms) ==
    IF RequiredKeys \subseteq DOMAIN req
    THEN [outcome |-> Return,
          object  |-> <<[ref |-> "new", value |-> SerializedRequest(req, ms)]>>,
          request |-> req]
    ELSE [outcome |-> Raise("KeyError"), object |-> <<>>, request |-> req]

\* what reading an object gives while the builder holds req and ms
Content(object, req, ms) ==
    IF object.ref = "builder" THEN SerializedRequest(req, ms) ELSE object.value

\* how many later set_asset_in / set_asset_out calls the caller holds a returned
\* structure for
MaxLaterCalls == 1

\* the caller makes one more call on the builder
AfterLaterCall(held) ==
    IF held = <<>> THEN <<>>
    ELSE IF held[1].later < MaxLaterCalls THEN <<[held[1] EXCEPT !.later = @ + 1]>>
    ELSE <<>>

(***************************************************************************)
(* Relay.  A reply to a request is a transport error, a non-success        *)
(* status, a body that is not JSON, a JSON body without "result", or a     *)
(* JSON body whose "result" is some value.                                 *)
(***************************************************************************)
MaxQuotes == 2

\* the amount_out strings the relay quotes: "12000000", "15000000", and the
\* neighbours 2^53 and 2^53 + 1
QuoteAmounts ==
    { Digits(<<1,2,0,0,0,0,0,0>>),
      Digits(<<1,5,0,0,0,0,0,0>>),
      Digits(<<9,0,0,7,1,9,9,2,5,4,7,4,0,9,9,2>>),
      Digits(<<9,0,0,7,1,9,9,2,5,4,7,4,0,9,9,3>>) }

\* a quote array: each quote carries its own quote_hash
QuoteLists ==
    UNION { { [i \in 1..n |-> [quote_hash |-> i, amount_out |-> f[i]]] :
               f \in [1..n -> QuoteAmounts] } : n \in 0..MaxQuotes }

\* a Python value for "result": a list, None (JSON null) or a JSON object
ListValue(items) == [type |-> "list", items |-> items]

NoneValue == [type |-> "None", items |-> <<>>]

ObjectValue == [type |-> "dict", items |-> <<>>]

FailureKinds == {"transport_error", "http_error", "invalid_json", "no_result"}

QuoteResponses ==
    { [kind |-> k, result |-> NoneValue] : k \in FailureKinds } \cup
    { [kind |-> "result", result |-> v] :
        v \in {ListValue(l) : l \in QuoteLists} \cup {NoneValue, ObjectValue} }

PublishResponses ==
    { [kind |-> k] : k \in FailureKinds \cup {"result"} }

\* fetch_options: the value it returns for the relay's reply (it never raises:
\* every exception of the try block is caught)
fetch_options(resp) ==
    IF resp.kind \in FailureKinds THEN ListValue(<<>>) ELSE resp.result

\* "not options" in intent_swap_zec and select_best_option; ObjectValue stands for
\* a non-empty JSON object, which is true
Falsy(v) == v.type = "None" \/ (v.type = "list" /\ v.items = <<>>)

\* the key of max: float(x["amount_out"])
OptionKey(x) == FloatOfStr(x.amount_out)

RECURSIVE MaxFrom(_, _, _)
MaxFrom(items, i, best) ==
    \* Python's max: the running maximum is replaced only by a strictly larger key
    IF i > Len(items) THEN best
    ELSE MaxFrom(items, i + 1,
                 IF FloatLess(OptionKey(best), OptionKey(items[i])) THEN items[i] ELSE best)

\* select_best_option: the outcome and the option returned (<<>> when it raises).
\* Iterating a JSON object yields its keys, strings, and x["amount_out"] on a
\* string raises TypeError.
select_best_option(v) ==
    IF Falsy(v) THEN [outcome |-> Raise("NoOptions"), option |-> <<>>]
    ELSE IF v.type # "list" THEN [outcome |-> Raise("TypeError"), option |-> <<>>]
    ELSE [outcome |-> Return, option |-> <<MaxFrom(v.items, 2, v.items[1])>>]

\* a publish that degrades like fetch_options: logs the exception and returns
publish_swallowing_errors(resp) == Return

\* publish_shielded_intent: the except clause logs and re-raises
publish_shielded_intent(resp) ==
    CASE resp.kind = "transport_error" -> Raise("ConnectionError")
      [] resp.kind = "http_error"      -> Raise("HTTPError")
      [] resp.kind = "invalid_json"    -> Raise("JSONDecodeError")
      [] resp.kind = "no_result"       -> Raise("KeyError")
      [] OTHER                         -> Return

(***************************************************************************)
(* Commitment builder (create_shielded_token_diff_quote) and the privacy   *)
(* decision of intent_swap_zec.  An Optional value is <<>> (None) or <<v>>.*)
(***************************************************************************)
Account == [account_id |-> "alice.near", public_key |-> "alice-public-key"]

DeadlineWindowMs == 120000

MaxNonce == 2

\* random.getrandbits(256): some value of the generator's range
Nonces == 1..MaxNonce

\* int(time.time() * 1000): the signer's clock when the quote is built
NowMs == {1000, 2000}

ShieldingOptions(enabled, memo, viewing_key) ==
    [enabled |-> enabled, memo |-> memo, viewing_key |-> viewing_key]

\* shielding options that do not look at the privacy level
SwapShieldOptionsAnyLevel(privacy_level, token_in, token_out) ==
    IF token_in = "ZEC" \/ token_out = "ZEC"
    THEN ShieldingOptions(TRUE, <<"Swap " \o token_in \o " to " \o token_out>>, <<>>)
    ELSE ShieldingOptions(FALSE, <<>>, <<>>)

\* a default that looks at the output token only
DefaultShieldOptionsOutputOnly(shield_options, token_in, token_out) ==
    IF shield_options = <<>>
    THEN ShieldingOptions(token_out = "ZEC", <<>>, <<>>)
    ELSE shield_options[1]

\* lines 113-117: the options used when the caller passes None
DefaultShieldOptions(shield_options, token_in, token_out) ==
    IF shield_options = <<>> /\ (token_in = "ZEC" \/ token_out = "ZEC")
    THEN ShieldingOptions(TRUE, <<>>, <<>>)
    ELSE IF shield_options = <<>>
    THEN ShieldingOptions(FALSE, <<>>, <<>>)
    ELSE shield_options[1]

\* lines 125-133: the intents list.  The diff is a dict literal with the two
\* keys in this order, so with equal keys the second value replaces the first.
TokenDiffIntents(token_in, amount_in, token_out, amount_out) ==
    LET id_in  == get_asset_id(token_in)
        id_out == get_asset_id(token_out)
        v_in   == Minus(to_decimals(amount_in, ASSET_MAP[token_in].decimals))
        v_out  == to_decimals(amount_out, ASSET_MAP[token_out].decimals)
    IN  << [intent |-> "token_diff",
            diff   |-> [k \in {id_in, id_out} |-> IF k = id_out THEN v_out ELSE v_in]] >>

\* lines 120-134: the Quote
Quote(nonce, now_ms, intents) ==
    [nonce              |-> nonce,
     signer_id          |-> Account.account_id,
     verifying_contract |-> "intents.near",
     deadline           |-> now_ms + DeadlineWindowMs,
     intents            |-> intents]

\* json.dumps(quote): the text of the quote
json_dumps(quote) == <<"json", quote>>

\* a commitment whose payload is serialized from a quote stamped again, a
\* millisecond after the one that was signed
ZcashCommitmentRestamped(quote, shield_options) ==
    [standard     |-> "raw_ed25519",
     payload      |-> json_dumps([quote EXCEPT !.deadline = @ + 1]),
     signature    |-> [scheme |-> "ed25519", key |-> Account.public_key,
                       signed |-> json_dumps(quote)],
     public_key   |-> [scheme |-> "ed25519", key |-> Account.public_key],
     shield_params |-> IF shield_options.enabled
                       THEN << [shielded    |-> TRUE,
                                memo        |-> shield_options.memo,
                                viewing_key |-> shield_options.viewing_key] >>
                       ELSE <<>>]

\* a commitment that always carries the options it was given
ZcashCommitmentWithOptions(quote, shield_options) ==
    [standard     |-> "raw_ed25519",
     payload      |-> json_dumps(quote),
     signature    |-> [scheme |-> "ed25519", key |-> Account.public_key,
                       signed |-> json_dumps(quote)],
     public_key   |-> [scheme |-> "ed25519", key |-> Account.public_key],
     shield_params |-> << [shielded    |-> shield_options.enabled,
                           memo        |-> shield_options.memo,
                           viewing_key |-> shield_options.viewing_key] >>]

\* the quote a commitment carries: json.loads of its payload
QuoteOf(commitment) == commitment.payload[2]

\* lines 136-161: the commitment, once the signer has signed
ZcashCommitment(quote, shield_options) ==
    [standard     |-> "raw_ed25519",
     payload      |-> json_dumps(quote),
     signature    |-> [scheme |-> "ed25519", key |-> Account.public_key,
                       signed |-> json_dumps(quote)],
     public_key   |-> [scheme |-> "ed25519", key |-> Account.public_key],
     shield_params |-> IF shield_options.enabled
                       THEN << [shielded    |-> TRUE,
                                memo        |-> shield_options.memo,
                                viewing_key |-> shield_options.viewing_key] >>
                       ELSE <<>>]

\* create_shielded_token_diff_quote with a signer that signs
create_shielded_token_diff_quote(token_in, amount_in, token_out, amount_out, shield_options, nonce, now_ms) ==
    ZcashCommitment(
        Quote(nonce, now_ms, TokenDiffIntents(token_in, amount_in, token_out, amount_out)),
        DefaultShieldOptions(shield_options, token_in, token_out))

\* intent_swap_zec lines 212-220: the shielding options for a privacy level
SwapShieldOptions(privacy_level, token_in, token_out) ==
    IF privacy_level = "shielded" /\ (token_in = "ZEC" \/ token_out = "ZEC")
    THEN ShieldingOptions(TRUE, <<"Swap " \o token_in \o " to " \o token_out>>, <<>>)
    ELSE ShieldingOptions(FALSE, <<>>, <<>>)

\* the privacy_level parameter of intent_swap_zec when the caller omits it
DefaultPrivacyLevel == "default"

\* what a caller passes as privacy level: nothing, or one of the documented levels
LevelArgs == {"None", "shielded", "transparent"}

\* the options a direct caller of create_shielded_token_diff_quote passes
ShieldOptionArgs ==
    { <<>>,
      <<ShieldingOptions(TRUE, <<"memo">>, <<"vk">>)>>,
      <<ShieldingOptions(FALSE, <<"memo">>, <<"vk">>)>> }

(***************************************************************************)
(* ZcashAgent.set_privacy_preferences.  A dict is a function from its keys. *)
(***************************************************************************)
valid_keys == {"default_level", "auto_shield", "memos_enabled", "viewing_keys"}

\* an update that keeps whatever key it is given
set_privacy_preferences_any_key(privacy, preferences) ==
    [key \in DOMAIN privacy \cup DOMAIN preferences |->
        IF key \in DOMAIN preferences THEN preferences[key] ELSE privacy[key]]

\* lines 307-310: self.privacy_preferences after the update with preferences
set_privacy_preferences(privacy, preferences) ==
    [key \in DOMAIN privacy \cup (valid_keys \cap DOMAIN preferences) |->
        IF key \in valid_keys /\ key \in DOMAIN preferences
        THEN preferences[key] ELSE privacy[key]]

\* lines 307-310, one turn of the loop: the preferences after the loop has
\* visited key
set_privacy_preferences_key(privacy, preferences, key) ==
    IF key \in DOMAIN preferences THEN Put(privacy, key, preferences[key]) ELSE privacy

\* the orders in which "for key in valid_keys" may visit the keys: a set of
\* strings iterates in an order that depends on the process's hash seed, the
\* same for every call within the process
KeyOrders ==
    {order \in [1..Cardinality(valid_keys) -> valid_keys] :
        \A i, j \in DOMAIN order : i # j => order[i] # order[j]}

\* updates of the three preferences other than default_level, one at a time
OtherUpdates ==
    {[auto_shield |-> b] : b \in BOOLEAN}
        \cup {[memos_enabled |-> b] : b \in BOOLEAN}
        \cup {[viewing_keys |-> v] : v \in {<<>>, [zs1 |-> "viewing key"]}}

\* the default levels a caller sets: the documented ones
DefaultLevels == {"shielded", "transparent", "default"}

\* the updates a caller makes between swaps: a new default level, alone or with a
\* key that is not recognized, or nothing
LevelUpdates ==
    {<<>>} \cup {[default_level |-> l] : l \in DefaultLevels}
           \cup {[default_level |-> l, theme |-> "dark"] : l \in DefaultLevels}

\* the values a caller supplies under each key of an update; "theme" stands for
\* the keys that are not recognized
PreferenceValues ==
    [default_level |-> DefaultLevels,
     auto_shield   |-> BOOLEAN,
     memos_enabled |-> BOOLEAN,
     viewing_keys  |-> {<<>>, [zs1 |-> "viewing key"]},
     theme         |-> {"dark"}]

\* the dicts of updates, with and without key
WithKey(updates, key) ==
    updates \cup {Put(u, key, v) : u \in updates, v \in PreferenceValues[key]}

\* every dict over the recognized keys and the unrecognized one
AllUpdates ==
    WithKey(WithKey(WithKey(WithKey(WithKey({<<>>},
        "default_level"), "auto_shield"), "memos_enabled"), "viewing_keys"), "theme")

(***************************************************************************)
(* ZcashAgent.get_balance and get_portfolio.  A balance query (account     *)
(* state for NEAR, ft_balance_of on the token contract for the others)     *)
(* either raises or replies; a reply is <<>> (None) or <<d>> with d the    *)
(* dict received, a function from its keys.                                *)
(***************************************************************************)
QueryRaises == [kind |-> "raise", reply |-> <<>>]

QueryReplies(r) == [kind |-> "return", reply |-> r]

\* the raw balances the chain reports: 0 and 4 USDC, 2 and 0.1 NEAR, 0 and 1.5 ZEC
RawBalances ==
    [USDC |-> {Digits(<<0>>), Digits(<<4, 0, 0, 0, 0, 0, 0>>)},
     NEAR |-> {Digits(<<2>> \o [i \in 1..24 |-> 0]), Digits(<<1>> \o [i \in 1..23 |-> 0])},
     ZEC  |-> {Digits(<<0>>), Digits(<<1, 5, 0, 0, 0, 0, 0, 0, 0>>)}]

\* what the query for token may give: a failure, no reply, a dict without the
\* key read, or a dict with a raw balance under it
Queries(token) ==
    LET key == IF token = "NEAR" THEN "amount" ELSE "result"
    IN  {QueryRaises, QueryReplies(<<>>), QueryReplies(<< <<>> >>)}
            \cup {QueryReplies(<<Put(<<>>, key, raw)>>) : raw \in RawBalances[token]}

\* one query outcome for every registered asset
AllQueries ==
    {q \in [DOMAIN ASSET_MAP -> UNION {Queries(t) : t \in DOMAIN ASSET_MAP}] :
        \A t \in DOMAIN ASSET_MAP : q[t] \in Queries(t)}

\* get_balance: the outcome and the balance returned.  Inside the try a failed
\* query, None subscripted (NEAR) and a missing 'amount' all end in the except
\* clause, which returns 0.0.
get_balance(token, query) ==
    IF token \notin DOMAIN ASSET_MAP
    THEN [outcome |-> Raise("ValueError"), balance |-> <<>>]
    ELSE IF query.kind = "raise"
    THEN [outcome |-> Return, balance |-> Zero]
    ELSE IF token = "NEAR"
    THEN IF query.reply # <<>> /\ "amount" \in DOMAIN query.reply[1]
         THEN [outcome |-> Return,
               balance |-> FloatDiv(FloatOfStr(query.reply[1].amount), TenToThe[24])]
         ELSE [outcome |-> Return, balance |-> Zero]
    ELSE IF query.reply = <<>> \/ "result" \notin DOMAIN query.reply[1]
    THEN [outcome |-> Return, balance |-> Zero]
    ELSE [outcome |-> Return,
          balance |-> from_decimals(query.reply[1].result, ASSET_MAP[token].decimals)]

\* a get_portfolio that has entries only for the assets whose query did not fail
get_portfolio_without_failed(queries) ==
    [token \in {t \in DOMAIN ASSET_MAP : queries[t].kind # "raise"} |->
        get_balance(token, queries[token]).balance]

\* get_portfolio: the dict returned (and kept in self.portfolio)
get_portfolio(queries) ==
    [token \in DOMAIN ASSET_MAP |->
        LET b == get_balance(token, queries[token])
        IN  IF b.outcome = Return THEN b.balance ELSE Zero]

\* the function f as an explicit table: the same function, its values computed
\* once
Tabulated(f) == f @@ <<>>

\* get_portfolio for every combination of query outcomes, as a table
Portfolios == Tabulated([queries \in AllQueries |-> get_portfolio(queries)])

(***************************************************************************)
(* ZcashAgent.analyze_portfolio.  The example rates are the float operands *)
(* of balance * 10 and balance * 0.25; 100 is the operand of the           *)
(* percentages.                                                            *)
(***************************************************************************)
ZecRate == [neg |-> FALSE, m |-> <<5>>, e |-> 1]

UsdcRate == [neg |-> FALSE, m |-> <<1>>, e |-> -2]

Hundred == [neg |-> FALSE, m |-> <<25>>, e |-> 2]

\* value_near of a balance in the distributions loop
ValueNear(token, balance) ==
    IF token = "NEAR" THEN balance
    ELSE IF token = "ZEC" THEN FloatMul(balance, ZecRate)
    ELSE IF token = "USDC" THEN FloatMul(balance, UsdcRate)
    ELSE Zero

\* _calculate_privacy_ratio: sum() adds the values in the dict's order, the order
\* of the registry (USDC, NEAR, ZEC), starting from the int 0
_calculate_privacy_ratio(balances) ==
    LET total_value == FloatAdd(FloatAdd(balances["USDC"], balances["NEAR"]),
                                balances["ZEC"])
    IN  IF NonPositive(total_value) THEN Zero
        ELSE FloatMul(FloatDiv(balances["ZEC"], total_value), Hundred)

\* analyze_portfolio: the analysis dict built from the portfolio just read
analyze_portfolio(queries) ==
    LET balances         == Portfolios[queries]
        zec_value_near   == FloatMul(balances["ZEC"], ZecRate)
        usdc_value_near  == FloatMul(balances["USDC"], UsdcRate)
        total_value_near == FloatAdd(balances["NEAR"],
                                     FloatAdd(zec_value_near, usdc_value_near))
    IN  [portfolio        |-> balances,
         total_value_near |-> total_value_near,
         distributions    |->
             IF NonPositive(total_value_near) THEN <<>>
             ELSE [token \in DOMAIN balances |->
                      FloatMul(FloatDiv(ValueNear(token, balances[token]),
                                        total_value_near), Hundred)],
         privacy_ratio    |-> _calculate_privacy_ratio(balances)]

\* analyze_portfolio for every combination of query outcomes, as a table
Analyses == Tabulated([queries \in AllQueries |-> analyze_portfolio(queries)])

(***************************************************************************)
(* Setup operations of ZcashAgent: __init__ with _load_account,            *)
(* _validate_account and _register_with_intents, and deposit_near.  The    *)
(* calls they make on the chain (account state, key registration, storage  *)
(* registration, deposit) either return or raise; a raised exception is    *)
(* named, and str(e) is the text under its name.  A text is the sequence   *)
(* of its characters.                                                      *)
(***************************************************************************)
ErrorText ==
    [KeyExists |->
         \* "Smart contract panicked: public key already exists"
         <<"S", "m", "a", "r", "t", " ", "c", "o", "n", "t", "r", "a",
           "c", "t", " ", "p", "a", "n", "i", "c", "k", "e", "d", ":",
           " ", "p", "u", "b", "l", "i", "c", " ", "k", "e", "y", " ",
           "a", "l", "r", "e", "a", "d", "y", " ", "e", "x", "i", "s",
           "t", "s">>,
     AlreadyRegistered |->
         \* "The account alice.near is already registered"
         <<"T", "h", "e", " ", "a", "c", "c", "o", "u", "n", "t", " ",
           "a", "l", "i", "c", "e", ".", "n", "e", "a", "r", " ", "i",
           "s", " ", "a", "l", "r", "e", "a", "d", "y", " ", "r", "e",
           "g", "i", "s", "t", "e", "r", "e", "d">>,
     AlreadyRegisteredTitle |->
         \* "Account Already Registered"
         <<"A", "c", "c", "o", "u", "n", "t", " ", "A", "l", "r", "e",
           "a", "d", "y", " ", "R", "e", "g", "i", "s", "t", "e", "r",
           "e", "d">>,
     OutOfGas |->
         \* "Exceeded the prepaid gas"
         <<"E", "x", "c", "e", "e", "d", "e", "d", " ", "t", "h", "e",
           " ", "p", "r", "e", "p", "a", "i", "d", " ", "g", "a", "s">>,
     Timeout |->
         \* "Read timed out"
         <<"R", "e", "a", "d", " ", "t", "i", "m", "e", "d", " ", "o",
           "u", "t">>]

\* str.lower() on the letters
LowerCase ==
    [A |-> "a", B |-> "b", C |-> "c", D |-> "d", E |-> "e", F |-> "f", G |-> "g",
     H |-> "h", I |-> "i", J |-> "j", K |-> "k", L |-> "l", M |-> "m", N |-> "n",
     O |-> "o", P |-> "p", Q |-> "q", R |-> "r", S |-> "s", T |-> "t", U |-> "u",
     V |-> "v", W |-> "w", X |-> "x", Y |-> "y", Z |-> "z"]

Lower(text) ==
    [i \in DOMAIN text |->
        IF text[i] \in DOMAIN LowerCase THEN LowerCase[text[i]] ELSE text[i]]

\* pattern in text
Contains(pattern, text) ==
    \E i \in 0..(Len(text) - Len(pattern)) :
        SubSeq(text, i + 1, i + Len(pattern)) = pattern

\* "public key already exists"
PublicKeyAlreadyExists ==
    <<"p", "u", "b", "l", "i", "c", " ", "k", "e", "y", " ", "a",
    "l", "r", "e", "a", "d", "y", " ", "e", "x", "i", "s", "t",
    "s">>

\* "already registered"
AlreadyRegisteredText ==
    <<"a", "l", "r", "e", "a", "d", "y", " ", "r", "e", "g", "i",
    "s", "t", "e", "r", "e", "d">>

\* what a call on the chain gives: it returns, or raises one of the errors
ChainOutcomes == {Return} \cup {Raise(e) : e \in DOMAIN ErrorText}

\* 0.1, the minimum balance of _validate_account
MinimumBalance == FloatDiv(FloatOfBig(BigOfInt(1)), FloatOfBig(BigOfInt(10)))

\* float(amount) / 10**24 for the raw balances the chain reports, as a table
NearBalances ==
    Tabulated([raw \in RawBalances["NEAR"] |-> FloatDiv(FloatOfStr(raw), TenToThe[24])])

\* float(account_state['amount']) / 10**24
BalanceNear(account_state) == NearBalances[account_state.amount]

\* _load_account: the file must exist, and an error of the loader is raised again
_load_account(setup) ==
    IF ~setup.file THEN Raise("FileNotFoundError") ELSE setup.load

\* _validate_account: every exception is logged and raised again
_validate_account(setup) ==
    IF setup.state.kind = "raise" THEN Raise("QueryFailed")
    ELSE IF setup.state.reply = <<>> \/ setup.state.reply[1] = <<>>
    THEN Raise("AccountNotFound")
    ELSE IF FloatLess(BalanceNear(setup.state.reply[1]), MinimumBalance)
    THEN Raise("InsufficientBalance")
    ELSE Return

\* a _register_with_intents that raises every error of the registration again
register_with_intents_strict(setup) == setup.register

\* _register_with_intents: an error whose text has one of the two phrases is
\* logged as "already registered", any other is raised again
_register_with_intents(setup) ==
    IF setup.register.kind # "raise" THEN Return
    ELSE LET error_str == ErrorText[setup.register.error]
         IN  IF \/ Contains(PublicKeyAlreadyExists, error_str)
                \/ Contains(AlreadyRegisteredText, Lower(error_str))
             THEN Return
             ELSE setup.register

\* ZcashAgent.__init__, lines 50-52: the three steps in order, the first
\* exception ends the construction
ZcashAgentInit(setup) ==
    IF _load_account(setup).kind = "raise" THEN _load_account(setup)
    ELSE IF _validate_account(setup).kind = "raise" THEN _validate_account(setup)
    ELSE _register_with_intents(setup)

\* a deposit_near that deposits whatever the storage registration gave
deposit_near_unchecked(amount, setup) ==
    [outcome |-> setup.deposit,
     log     |-> <<"state", "register_token_storage", "intent_deposit">>]

\* deposit_near: the outcome and the calls issued on the chain, in order
deposit_near(amount, setup) ==
    IF NonPositive(amount) THEN [outcome |-> Raise("InvalidAmount"), log |-> <<>>]
    ELSE IF setup.state.kind = "raise"
    THEN [outcome |-> Raise("QueryFailed"), log |-> <<"state">>]
    ELSE IF setup.state.reply = <<>> \/ setup.state.reply[1] = <<>>
    THEN [outcome |-> Raise("AccountNotFound"), log |-> <<"state">>]
    ELSE IF FloatLess(BalanceNear(setup.state.reply[1]), amount)
    THEN [outcome |-> Raise("InsufficientBalance"), log |-> <<"state">>]
    ELSE IF /\ setup.register.kind = "raise"
            /\ ~Contains(AlreadyRegisteredText, Lower(ErrorText[setup.register.error]))
    THEN [outcome |-> setup.register, log |-> <<"state", "register_token_storage">>]
    ELSE [outcome |-> setup.deposit,
          log     |-> <<"state", "register_token_storage", "intent_deposit">>]

\* how the chain and the file system answer during a setup operation
Setups ==
    [file : BOOLEAN, load : {Return, Raise("Timeout")}, state : Queries("NEAR"),
     register : ChainOutcomes, deposit : {Return, Raise("OutOfGas")}]

\* the preferences of a new agent, lines 54-59
NewAgentPreferences ==
    [default_level |-> "shielded", auto_shield |-> TRUE,
     memos_enabled |-> TRUE, viewing_keys |-> <<>>]

(***************************************************************************)
(* State.  One caller drives one ZcashAgent and the module's functions,    *)
(* one call at a time (the pipeline is a blocking call chain).             *)
(***************************************************************************)
VARIABLES
    pc,                  \* where the caller stands: "idle"; in a swap at "fetch",
                         \* "select", "sign" or "publish"; "done" (a call is over,
                         \* outcome in result); "builder" (it holds an IntentRequest
                         \* of its own, outcome of its last call on it in result)
    call,                \* the call the caller issued, with its arguments
    request,             \* IntentRequest.request of the builder in use
    options,             \* what fetch_options returned
    best_option,         \* what select_best_option returned, <<>> before
    signed_intent,       \* the commitment built, <<>> before
    log,                 \* the steps taken by the current call, in order
    ret,                 \* outcomes of the inner frames of a swap
    result,              \* the outcome the caller sees
    relay,               \* the kind of the relay's reply to the quote request and
                         \* to the publish request of the current call, "" before
    privacy_preferences, \* ZcashAgent.privacy_preferences
    kept_nonces,         \* the nonces of the commitments the caller has kept from
                         \* its earlier calls, oldest first
    min_deadline_ms,     \* IntentRequest.min_deadline_ms of the builder in use
    serialized,          \* the structure serialize last returned to the caller, if
                         \* the caller still holds it: <<>> or <<[object, seen, later]>>,
                         \* the object, its content when it was returned, and the
                         \* number of set_asset_in / set_asset_out calls since
    portfolio,           \* ZcashAgent.portfolio
    returned,            \* what a portfolio call or a codec call returned to the
                         \* caller, <<>> when the call in hand is not one
    threads              \* the set_privacy_preferences calls that run at the same
                         \* time on the agent, <<>> when none do: the preferences
                         \* before them, the order in which the loop visits
                         \* valid_keys, and for each call its argument and the
                         \* index of the key its loop visits next

vars == <<pc, call, request, options, best_option, signed_intent, log, ret, result,
          relay, privacy_preferences, kept_nonces, min_deadline_ms, serialized,
          portfolio, returned, threads>>

NoCall ==
    [op |-> "none", token_in |-> "", amount_in |-> Zero, token_out |-> "",
     amount_out |-> <<>>, level_arg |-> "None", privacy_level |-> "",
     shield_options |-> <<>>, preferences |-> <<>>, queries |-> <<>>,
     setup |-> <<>>]

NoOptionsYet == [type |-> "unset", items |-> <<>>]

NoFrames == [publish |-> NoOutcome, swap |-> NoOutcome]

NoReplies == [quotes |-> "", publish |-> ""]

SwapOps == {"swap_to_zec", "swap_from_zec", "intent_swap_zec"}

AgentOps == {"swap_to_zec", "swap_from_zec"}

\* ZcashAgent.__init__
Init ==
    /\ pc = "idle"
    /\ call = NoCall
    /\ request = EmptyRequest
    /\ options = NoOptionsYet
    /\ best_option = <<>>
    /\ signed_intent = <<>>
    /\ log = <<>>
    /\ ret = NoFrames
    /\ result = NoOutcome
    /\ relay = NoReplies
    /\ privacy_preferences = NewAgentPreferences
    /\ kept_nonces = <<>>
    /\ portfolio = <<>>
    /\ returned = <<>>
    /\ threads = <<>>
    /\ min_deadline_ms = DefaultMinDeadlineMs
    /\ serialized = <<>>

\* a call that ends at once with outcome o, before intent_swap_zec is entered
EndEarly(c, o) ==
    /\ pc' = "done"
    /\ call' = c
    /\ result' = o
    /\ request' = EmptyRequest
    /\ log' = <<>>
    /\ ret' = NoFrames
    /\ UNCHANGED <<options, best_option, signed_intent, relay, privacy_preferences, kept_nonces, min_deadline_ms, serialized, portfolio, returned, threads>>

\* the except clause of swap_to_zec and swap_from_zec: log, then raise the same
\* exception; a normal result is returned as it is
AgentExcept(o) == o

\* what the caller sees when intent_swap_zec, entered through call c, ends with o
CallerSees(c, o) == IF c.op \in AgentOps THEN AgentExcept(o) ELSE o

\* intent_swap_zec lines 198-201: a new IntentRequest, set_asset_in, set_asset_out.
EnterIntentSwap(c) ==
    LET r1 == set_asset_in(EmptyRequest, c.token_in, c.amount_in)
        r2 == IF r1.outcome.kind = "raise" THEN r1
              ELSE set_asset_out(r1.request, c.token_out, <<>>)
    IN  /\ call' = c
        /\ request' = r2.request
        /\ log' = <<"build_request">>
        /\ IF r2.outcome.kind = "raise"
           THEN /\ pc' = "done"
                /\ ret' = [NoFrames EXCEPT !.swap = r2.outcome]
                /\ result' = CallerSees(c, r2.outcome)
           ELSE /\ pc' = "fetch"
                /\ ret' = NoFrames
                /\ result' = NoOutcome
        /\ UNCHANGED <<options, best_option, signed_intent, relay, privacy_preferences, kept_nonces, min_deadline_ms, serialized, portfolio, returned, threads>>

\* ZcashAgent.swap_to_zec, up to the quote request
SwapToZec ==
    /\ pc = "idle"
    /\ \E token_in \in Symbols, amount_in \in Amounts, level \in LevelArgs :
         LET c == [NoCall EXCEPT !.op = "swap_to_zec", !.token_in = token_in,
                                 !.amount_in = amount_in, !.token_out = "ZEC",
                                 !.level_arg = level]
         IN  IF NonPositive(amount_in) THEN EndEarly(c, Raise("InvalidAmount"))
             ELSE IF token_in \notin DOMAIN ASSET_MAP
             THEN EndEarly(c, Raise("UnsupportedAsset"))
             ELSE EnterIntentSwap(
                      [c EXCEPT !.privacy_level =
                          IF level = "None" THEN privacy_preferences.default_level
                          ELSE level])

\* ZcashAgent.swap_from_zec, up to the quote request
SwapFromZec ==
    /\ pc = "idle"
    /\ \E token_out \in Symbols, amount_in \in Amounts, level \in LevelArgs :
         LET c == [NoCall EXCEPT !.op = "swap_from_zec", !.token_in = "ZEC",
                                 !.amount_in = amount_in, !.token_out = token_out,
                                 !.level_arg = level]
         IN  IF NonPositive(amount_in) THEN EndEarly(c, Raise("InvalidAmount"))
             ELSE IF token_out \notin DOMAIN ASSET_MAP
             THEN EndEarly(c, Raise("UnsupportedAsset"))
             ELSE EnterIntentSwap(
                      [c EXCEPT !.privacy_level =
                          IF level = "None" THEN privacy_preferences.default_level
                          ELSE level])

\* intent_swap_zec called directly, up to the quote request
IntentSwapZec ==
    /\ pc = "idle"
    /\ \E token_in \in Symbols, amount_in \in Amounts, token_out \in Symbols,
          level \in LevelArgs :
         EnterIntentSwap(
             [NoCall EXCEPT !.op = "intent_swap_zec", !.token_in = token_in,
                            !.amount_in = amount_in, !.token_out = token_out,
                            !.level_arg = level,
                            !.privacy_level =
                                IF level = "None" THEN DefaultPrivacyLevel ELSE level])

\* intent_swap_zec ends with outcome o
EndSwap(o) ==
    /\ pc' = "done"
    /\ ret' = [ret EXCEPT !.swap = o]
    /\ result' = CallerSees(call, o)

\* intent_swap_zec without its own empty check: it goes on to select_best_option
NoSwapOptionsUnchecked(v) == FALSE

\* line 205: "if not options"
NoSwapOptions(v) == Falsy(v)

\* line 204: fetch_options(request), one POST to the relay
FetchOptions ==
    /\ pc = "fetch"
    /\ \E resp \in QuoteResponses :
         /\ options' = fetch_options(resp)
         /\ relay' = [relay EXCEPT !.quotes = resp.kind]
    /\ log' = Append(log, "quote_request")
    /\ pc' = "select"
    /\ UNCHANGED <<call, request, best_option, signed_intent, ret, result,
                   privacy_preferences, kept_nonces, min_deadline_ms, serialized, portfolio, returned, threads>>

\* lines 205-210: the empty check and select_best_option
SelectOption ==
    /\ pc = "select"
    /\ IF NoSwapOptions(options)
       THEN /\ EndSwap(Raise("NoLiquidity"))
            /\ UNCHANGED <<best_option, log>>
       ELSE LET r == select_best_option(options)
            IN  /\ log' = Append(log, "select")
                /\ best_option' = r.option
                /\ IF r.outcome.kind = "raise"
                   THEN EndSwap(r.outcome)
                   ELSE /\ pc' = "sign"
                        /\ UNCHANGED <<ret, result>>
    /\ UNCHANGED <<call, request, options, signed_intent, relay, privacy_preferences, kept_nonces, min_deadline_ms, serialized, portfolio, returned, threads>>

\* a sign step whose shielding options follow the agent's preferences: no memo
\* when memos_enabled is false, and the stored viewing keys as viewing key
BuildAndSignByPreferences ==
    /\ pc = "sign"
    /\ LET by_level == SwapShieldOptions(call.privacy_level, call.token_in, call.token_out)
           shield_options ==
               ShieldingOptions(by_level.enabled,
                                IF privacy_preferences.memos_enabled
                                THEN by_level.memo ELSE <<>>,
                                IF privacy_preferences.viewing_keys = <<>>
                                THEN <<>> ELSE <<privacy_preferences.viewing_keys>>)
           amount_out == FloatOfStr(best_option[1].amount_out)
       IN  \E nonce \in Nonces, now_ms \in NowMs, signs \in BOOLEAN :
             IF signs
             THEN /\ signed_intent' =
                         <<create_shielded_token_diff_quote(
                               call.token_in, call.amount_in, call.token_out,
                               amount_out, <<shield_options>>, nonce, now_ms)>>
                  /\ pc' = "publish"
                  /\ UNCHANGED <<ret, result>>
             ELSE /\ EndSwap(Raise("SigningFailure"))
                  /\ UNCHANGED signed_intent
    /\ log' = Append(log, "sign")
    /\ UNCHANGED <<call, request, options, best_option, relay, privacy_preferences, kept_nonces, min_deadline_ms, serialized, portfolio, returned, threads>>

\* lines 212-230: the shielding options, then create_shielded_token_diff_quote,
\* whose account.signer.sign may raise
BuildAndSign ==
    /\ pc = "sign"
    /\ LET shield_options ==
               SwapShieldOptions(call.privacy_level, call.token_in, call.token_out)
           amount_out == FloatOfStr(best_option[1].amount_out)
       IN  \E nonce \in Nonces, now_ms \in NowMs, signs \in BOOLEAN :
             IF signs
             THEN /\ signed_intent' =
                         <<create_shielded_token_diff_quote(
                               call.token_in, call.amount_in, call.token_out,
                               amount_out, <<shield_options>>, nonce, now_ms)>>
                  /\ pc' = "publish"
                  /\ UNCHANGED <<ret, result>>
             ELSE /\ EndSwap(Raise("SigningFailure"))
                  /\ UNCHANGED signed_intent
    /\ log' = Append(log, "sign")
    /\ UNCHANGED <<call, request, options, best_option, relay, privacy_preferences, kept_nonces, min_deadline_ms, serialized, portfolio, returned, threads>>

\* a publish step that posts again, once, when the relay's reply is a failure
PublishWithRetry ==
    /\ pc = "publish"
    /\ \E resp \in PublishResponses :
         LET o == publish_shielded_intent(resp)
             again == o.kind = "raise" /\ relay.publish = ""
         IN  /\ pc' = IF again THEN "publish" ELSE "done"
             /\ ret' = IF again THEN ret ELSE [publish |-> o, swap |-> o]
             /\ result' = IF again THEN result ELSE CallerSees(call, o)
             /\ relay' = [relay EXCEPT !.publish = resp.kind]
    /\ log' = Append(log, "publish_request")
    /\ UNCHANGED <<call, request, options, best_option, signed_intent,
                   privacy_preferences, kept_nonces, min_deadline_ms, serialized, portfolio, returned, threads>>

\* lines 233-235: publish_shielded_intent(signed_intent), one POST to the relay
Publish ==
    /\ pc = "publish"
    /\ \E resp \in PublishResponses :
         LET o == publish_shielded_intent(resp)
         IN  /\ pc' = "done"
             /\ ret' = [publish |-> o, swap |-> o]
             /\ result' = CallerSees(call, o)
             /\ relay' = [relay EXCEPT !.publish = resp.kind]
    /\ log' = Append(log, "publish_request")
    /\ UNCHANGED <<call, request, options, best_option, signed_intent,
                   privacy_preferences, kept_nonces, min_deadline_ms, serialized, portfolio, returned, threads>>

\* IntentRequest(): the caller makes a builder of its own
NewIntentRequest ==
    /\ pc = "idle"
    /\ pc' = "builder"
    /\ \E args \in BuilderArgs :
         /\ request' = args.request
         /\ min_deadline_ms' = args.min_deadline_ms
    /\ UNCHANGED <<call, options, best_option, signed_intent, log, ret, result,
                   relay, privacy_preferences, kept_nonces, serialized, portfolio, returned, threads>>

\* IntentRequest.set_asset_in on the caller's builder
SetAssetIn ==
    /\ pc = "builder"
    /\ \E asset_name \in Symbols, amount \in Amounts :
         LET r == set_asset_in(request, asset_name, amount)
         IN  /\ call' = [NoCall EXCEPT !.op = "set_asset_in", !.token_in = asset_name,
                                       !.amount_in = amount]
             /\ request' = r.request
             /\ result' = r.outcome
    /\ serialized' = AfterLaterCall(serialized)
    /\ UNCHANGED <<pc, options, best_option, signed_intent, log, ret, relay,
                   privacy_preferences, kept_nonces, min_deadline_ms, portfolio, returned, threads>>

\* IntentRequest.set_asset_out on the caller's builder
SetAssetOut ==
    /\ pc = "builder"
    /\ \E asset_name \in Symbols, amount \in {<<>>, <<Half>>} :
         LET r == set_asset_out(request, asset_name, amount)
         IN  /\ call' = [NoCall EXCEPT !.op = "set_asset_out", !.token_out = asset_name,
                                       !.amount_out = amount]
             /\ request' = r.request
             /\ result' = r.outcome
    /\ serialized' = AfterLaterCall(serialized)
    /\ UNCHANGED <<pc, options, best_option, signed_intent, log, ret, relay,
                   privacy_preferences, kept_nonces, min_deadline_ms, portfolio, returned, threads>>

\* create_shielded_token_diff_quote called directly; get_asset_id and ASSET_MAP[...]
\* raise KeyError for a symbol that is not registered, before anything is signed
CreateShieldedTokenDiffQuote ==
    /\ pc = "idle"
    /\ \E token_in \in Symbols, amount_in \in Amounts, token_out \in Symbols,
          shield_options \in ShieldOptionArgs :
         LET c == [NoCall EXCEPT !.op = "create_shielded_token_diff_quote",
                                 !.token_in = token_in, !.amount_in = amount_in,
                                 !.token_out = token_out, !.amount_out = <<Half>>,
                                 !.shield_options = shield_options]
         IN  /\ call' = c
             /\ IF token_in \notin DOMAIN ASSET_MAP \/ token_out \notin DOMAIN ASSET_MAP
                THEN /\ result' = Raise("KeyError")
                     /\ signed_intent' = <<>>
                     /\ log' = <<>>
                ELSE \E nonce \in Nonces, now_ms \in NowMs, signs \in BOOLEAN :
                           /\ log' = <<"sign">>
                           /\ IF signs
                              THEN /\ signed_intent' =
                                          <<create_shielded_token_diff_quote(
                                                token_in, amount_in, token_out, Half,
                                                shield_options, nonce, now_ms)>>
                                   /\ result' = Return
                              ELSE /\ signed_intent' = <<>>
                                   /\ result' = Raise("SigningFailure")
    /\ pc' = "done"
    /\ request' = EmptyRequest
    /\ UNCHANGED <<options, best_option, ret, relay, privacy_preferences, kept_nonces, min_deadline_ms, serialized, portfolio, returned, threads>>

\* select_best_option called directly on a list of quotes
SelectBestOption ==
    /\ pc = "idle"
    /\ \E l \in QuoteLists :
         LET r == select_best_option(ListValue(l))
         IN  /\ options' = ListValue(l)
             /\ best_option' = r.option
             /\ result' = r.outcome
    /\ call' = [NoCall EXCEPT !.op = "select_best_option"]
    /\ pc' = "done"
    /\ log' = <<"select">>
    /\ UNCHANGED <<request, signed_intent, ret, relay, privacy_preferences, kept_nonces, min_deadline_ms, serialized, portfolio, returned, threads>>

\* ZcashAgent.set_privacy_preferences(preferences), preferences one of updates
SetPrivacyPreferences(updates) ==
    /\ pc = "idle"
    /\ \E preferences \in updates :
         /\ privacy_preferences' =
                set_privacy_preferences(privacy_preferences, preferences)
         /\ call' = [NoCall EXCEPT !.op = "set_privacy_preferences",
                                   !.preferences = preferences]
    /\ pc' = "done"
    /\ result' = Return
    /\ UNCHANGED <<request, options, best_option, signed_intent, log, ret, relay, kept_nonces, min_deadline_ms, serialized, portfolio, returned, threads>>

\* the caller has the outcome and goes on: the frames of the call, or the builder
\* it held, are gone
Finish ==
    /\ pc \in {"done", "builder"}
    /\ pc' = "idle"
    /\ call' = NoCall
    /\ request' = EmptyRequest
    /\ options' = NoOptionsYet
    /\ best_option' = <<>>
    /\ signed_intent' = <<>>
    /\ log' = <<>>
    /\ ret' = NoFrames
    /\ result' = NoOutcome
    /\ relay' = NoReplies
    /\ min_deadline_ms' = DefaultMinDeadlineMs
    /\ serialized' = <<>>
    /\ returned' = <<>>
    /\ threads' = <<>>
    /\ UNCHANGED <<privacy_preferences, kept_nonces, portfolio>>

Next ==
    \/ SwapToZec
    \/ SwapFromZec
    \/ IntentSwapZec
    \/ FetchOptions
    \/ SelectOption
    \/ BuildAndSign
    \/ Publish
    \/ NewIntentRequest
    \/ SetAssetIn
    \/ SetAssetOut
    \/ CreateShieldedTokenDiffQuote
    \/ SelectBestOption
    \/ SetPrivacyPreferences(LevelUpdates)
    \/ Finish

Spec == Init /\ [][Next]_vars

(***************************************************************************)
(* A caller that builds commitments for the one signer, one after another, *)
(* and keeps them (their nonces), up to MaxKept of them.                   *)
(***************************************************************************)
MaxKept == 2

\* the caller puts the commitment it was returned with the ones it has
KeepCommitment ==
    /\ pc = "done"
    /\ signed_intent # <<>>
    /\ Len(kept_nonces) < MaxKept
    /\ kept_nonces' = Append(kept_nonces, QuoteOf(signed_intent[1]).nonce)
    /\ pc' = "idle"
    /\ call' = NoCall
    /\ request' = EmptyRequest
    /\ options' = NoOptionsYet
    /\ best_option' = <<>>
    /\ signed_intent' = <<>>
    /\ log' = <<>>
    /\ ret' = NoFrames
    /\ result' = NoOutcome
    /\ relay' = NoReplies
    /\ UNCHANGED <<privacy_preferences, min_deadline_ms, serialized, portfolio, returned, threads>>

SignerNext ==
    \/ CreateShieldedTokenDiffQuote
    \/ KeepCommitment
    \/ Finish

SignerSpec == Init /\ [][SignerNext]_vars

(***************************************************************************)
(* A caller that works on an IntentRequest of its own and serializes it.   *)
(***************************************************************************)
\* IntentRequest.serialize on the caller's builder
Serialize ==
    /\ pc = "builder"
    /\ LET r == serialize(request, min_deadline_ms)
       IN  /\ request' = r.request
           /\ result' = r.outcome
           /\ serialized' =
                  IF r.outcome = Return
                  THEN <<[object |-> r.object[1],
                          seen   |-> Content(r.object[1], request, min_deadline_ms),
                          later  |-> 0]>>
                  ELSE serialized
    /\ call' = [NoCall EXCEPT !.op = "serialize"]
    /\ UNCHANGED <<pc, options, best_option, signed_intent, log, ret, relay,
                   privacy_preferences, kept_nonces, min_deadline_ms, portfolio, returned, threads>>

BuilderNext ==
    \/ NewIntentRequest
    \/ SetAssetIn
    \/ SetAssetOut
    \/ Serialize
    \/ Finish

BuilderSpec == Init /\ [][BuilderNext]_vars

(***************************************************************************)
(* Properties.                                                             *)
(***************************************************************************)
\* the step s was taken by the current call
HasStep(s) == \E i \in 1..Len(log) : log[i] = s

\* the order of the steps of intent_swap_zec
PipelineOrder == <<"build_request", "quote_request", "select", "sign", "publish_request">>

IsPrefix(s, t) == Len(s) <= Len(t) /\ s = SubSeq(t, 1, Len(s))

\* C1: in every swap that reaches signing, the commitment carries a single
\* token_diff intent whose diff maps the input asset's identifier to the negated
\* on-chain encoding of the input amount and the output asset's identifier to
\* exactly the amount_out string of the selected quote, not rescaled.
C1_DiffCarriesQuotedAmount ==
    (call.op \in SwapOps /\ signed_intent # <<>>) =>
        LET intents == QuoteOf(signed_intent[1]).intents
            diff    == intents[1].diff
            id_in   == get_asset_id(call.token_in)
            id_out  == get_asset_id(call.token_out)
        IN  /\ Len(intents) = 1
            /\ intents[1].intent = "token_diff"
            /\ DOMAIN diff = {id_in, id_out}
            /\ id_in # id_out =>
                   diff[id_in] = Minus(to_decimals(call.amount_in,
                                                   ASSET_MAP[call.token_in].decimals))
            /\ diff[id_out] = best_option[1].amount_out

\* C2: when the quote fetch of a swap yields an empty list, the swap ends with
\* NoLiquidity at its next step, and no selection, no signing and no publish
\* request occurs in that run.
C2_EmptyFetch ==
    /\ call.op \in SwapOps
    /\ HasStep("quote_request")
    /\ options = ListValue(<<>>)

C2_EmptyQuotesEndInNoLiquidity ==
    /\ [](C2_EmptyFetch =>
            /\ pc \in {"select", "done"}
            /\ ~HasStep("select") /\ ~HasStep("sign") /\ ~HasStep("publish_request")
            /\ best_option = <<>> /\ signed_intent = <<>> /\ relay.publish = ""
            /\ pc = "done" => (ret.swap = Raise("NoLiquidity") /\ result = ret.swap))
    /\ [][(C2_EmptyFetch /\ pc = "select") =>
            (pc' = "done" /\ result' = Raise("NoLiquidity") /\ log' = log)]_vars

C2_Witness ==
    /\ C2_EmptyFetch
    /\ relay.quotes = "result"
    /\ pc = "done"
    /\ result = Raise("NoLiquidity")
    /\ log = <<"build_request", "quote_request">>

\* C3: within one swap the steps occur only in the order build request, fetch
\* quotes, select, sign, publish, each at most once; a step only ever appends the
\* next step of that order, nothing is appended after the swap has ended (failed or
\* not), so at most one quote request and one publish request are issued per call.
C3_StepsInOrderOnce ==
    /\ [](call.op \in SwapOps => IsPrefix(log, PipelineOrder))
    /\ [][call.op \in SwapOps =>
            \/ log' = log
            \/ pc # "done" /\ Len(log) < Len(PipelineOrder)
                  /\ log' = Append(log, PipelineOrder[Len(log) + 1])
            \/ pc = "done" /\ call'.op \notin SwapOps /\ log' = <<>>]_vars

C3_Witness ==
    /\ call.op \in SwapOps
    /\ pc = "done"
    /\ log = PipelineOrder
    /\ relay.publish = "transport_error"
    /\ result.kind = "raise"

\* C4: a failure of signing, or of publishing (transport error, non-success
\* status, body that is not JSON or has no result), makes the swap fail with that
\* underlying error at every level: publish_shielded_intent, intent_swap_zec and
\* the agent's swap_to_zec / swap_from_zec; no swap whose publish failed returns.
C4_UnderlyingError ==
    [transport_error |-> "ConnectionError", http_error |-> "HTTPError",
     invalid_json |-> "JSONDecodeError", no_result |-> "KeyError"]

C4_SigningFailed ==
    /\ call.op \in SwapOps
    /\ log # <<>> /\ log[Len(log)] = "sign"
    /\ signed_intent = <<>>

C4_PublishFailed ==
    /\ call.op \in SwapOps
    /\ relay.publish \in FailureKinds

C4_FailuresPropagate ==
    /\ C4_SigningFailed =>
          /\ pc = "done"
          /\ ret.swap = Raise("SigningFailure")
          /\ result = Raise("SigningFailure")
    /\ C4_PublishFailed =>
          /\ pc = "done"
          /\ ret.publish = Raise(C4_UnderlyingError[relay.publish])
          /\ ret.swap = ret.publish
          /\ result = ret.publish

C4_Witness ==
    /\ C4_PublishFailed
    /\ call.op = "swap_to_zec"
    /\ relay.publish = "http_error"
    /\ result = Raise("HTTPError")

\* C5: fetch_options returns an empty list on any transport error, non-success
\* status or malformed response (here: a body that is not JSON, a body without
\* "result", a "result" that is a JSON object instead of an array), so such a swap
\* ends with NoLiquidity like one for which the relay returned an empty array.
C5_QuoteRequestFailed ==
    /\ call.op \in SwapOps
    /\ HasStep("quote_request")
    /\ relay.quotes \in FailureKinds \/ options.type = "dict"

C5_FailedFetchIsEmptyList ==
    C5_QuoteRequestFailed =>
        /\ options = ListValue(<<>>)
        /\ pc \in {"select", "done"}
        /\ pc = "done" => result = Raise("NoLiquidity")

\* C6: a swap or request-builder call that names a symbol which is not in the
\* registry fails, and no quote or publish request is issued in that call; it fails
\* with UnsupportedAsset, except that swap_to_zec and swap_from_zec called with an
\* input amount that is not positive fail with InvalidAmount, which they check
\* before the symbol.
Registered(token) == token \in DOMAIN ASSET_MAP

C6_UnknownAssetNamed ==
    \/ call.op = "intent_swap_zec"
          /\ (~Registered(call.token_in) \/ ~Registered(call.token_out))
    \/ call.op \in {"swap_to_zec", "set_asset_in"} /\ ~Registered(call.token_in)
    \/ call.op \in {"swap_from_zec", "set_asset_out"} /\ ~Registered(call.token_out)

C6_NoNetworkRequest ==
    /\ pc \in {"done", "builder"}
    /\ ~HasStep("quote_request") /\ ~HasStep("publish_request")
    /\ relay = NoReplies

C6_UnknownAssetFailsOffline ==
    C6_UnknownAssetNamed =>
        /\ C6_NoNetworkRequest
        /\ result = Raise(IF call.op \in AgentOps /\ NonPositive(call.amount_in)
                          THEN "InvalidAmount" ELSE "UnsupportedAsset")

C6_Witness ==
    /\ call.op = "intent_swap_zec"
    /\ call.token_in = "NEAR" /\ call.token_out = "DOGE"
    /\ pc = "done"
    /\ log = <<"build_request">>
    /\ result = Raise("UnsupportedAsset")

\* C6 as stated: every such call fails with UnsupportedAsset
C6_UnknownAssetAlwaysUnsupported ==
    C6_UnknownAssetNamed =>
        /\ C6_NoNetworkRequest
        /\ result = Raise("UnsupportedAsset")

\* C7: a swap between registered assets whose input amount is not strictly
\* positive is rejected with InvalidAmount and issues no quote request and no
\* publish request, through set_asset_in, intent_swap_zec, swap_to_zec and
\* swap_from_zec alike.
C7_NonPositiveInput ==
    /\ NonPositive(call.amount_in)
    /\ \/ call.op \in SwapOps /\ Registered(call.token_in) /\ Registered(call.token_out)
       \/ call.op = "set_asset_in" /\ Registered(call.token_in)

C7_NonPositiveRejectedLocally ==
    C7_NonPositiveInput =>
        /\ pc \in {"done", "builder"}
        /\ result = Raise("InvalidAmount")
        /\ ~HasStep("quote_request") /\ ~HasStep("publish_request")

\* C8: select_best_option on a non-empty list returns an element of the list
\* whose amount_out, as a number, is the maximum over the list, the first such
\* element in list order; on an empty list it fails with NoOptions and returns
\* nothing.
C8_Selected ==
    /\ call.op \in SwapOps \cup {"select_best_option"}
    /\ HasStep("select")
    /\ options.type = "list"

C8_Amount(x) == x.amount_out.mag

C8_SelectsFirstNumericMaximum ==
    C8_Selected =>
        IF options.items = <<>>
        THEN result = Raise("NoOptions") /\ best_option = <<>>
        ELSE /\ best_option # <<>>
             /\ \E i \in 1..Len(options.items) :
                   /\ options.items[i] = best_option[1]
                   /\ \A j \in 1..Len(options.items) :
                         ~BigLess(C8_Amount(best_option[1]), C8_Amount(options.items[j]))
                   /\ \A j \in 1..(i - 1) :
                         BigLess(C8_Amount(options.items[j]), C8_Amount(best_option[1]))

\* C9: a swap from NEAR to ZEC through intent_swap_zec, called without a privacy
\* level, builds a commitment with shielding enabled (shield_params present).
C9_DefaultNearToZecIsShielded ==
    (/\ call.op = "intent_swap_zec"
     /\ call.level_arg = "None"
     /\ call.token_in = "NEAR" /\ call.token_out = "ZEC"
     /\ signed_intent # <<>>)
    => /\ signed_intent[1].shield_params # <<>>
       /\ signed_intent[1].shield_params[1].shielded

\* C10: create_shielded_token_diff_quote called without privacy options builds a
\* commitment that carries shielding parameters if and only if at least one of
\* the two registered assets is privacy-capable in the registry.
C10_CalledWithoutOptions ==
    /\ call.op = "create_shielded_token_diff_quote"
    /\ call.shield_options = <<>>
    /\ signed_intent # <<>>

C10_DefaultShieldingIffCapable ==
    C10_CalledWithoutOptions =>
        (signed_intent[1].shield_params # <<>>
            <=> (PrivacyCapable(call.token_in) \/ PrivacyCapable(call.token_out)))

C10_Witness ==
    /\ C10_CalledWithoutOptions
    /\ call.token_in = "ZEC" /\ call.token_out = "USDC"
    /\ signed_intent[1].shield_params = <<[shielded |-> TRUE, memo |-> <<>>,
                                           viewing_key |-> <<>>]>>

\* C11: a swap started through swap_to_zec or swap_from_zec runs at the caller's
\* explicit level when one is passed and otherwise at privacy_preferences'
\* default_level as it is at the call, after any updates; the commitment built is
\* shielded exactly when that level is 'shielded' and one of the two assets is
\* privacy-capable, and at any other level it is built transparent: the level
\* never makes the build fail.
C11_Level ==
    IF call.level_arg = "None" THEN privacy_preferences.default_level
    ELSE call.level_arg

C11_AgentSwapRuns == call.op \in AgentOps /\ log # <<>>

C11_LevelDecidesShielding ==
    /\ [](C11_AgentSwapRuns =>
            /\ call.privacy_level = C11_Level
            /\ signed_intent # <<>> =>
                  (signed_intent[1].shield_params # <<>>
                     <=> /\ C11_Level = "shielded"
                         /\ (PrivacyCapable(call.token_in)
                               \/ PrivacyCapable(call.token_out))))
    /\ [][(C11_AgentSwapRuns /\ pc = "sign") =>
            (signed_intent' # <<>> \/ result' = Raise("SigningFailure"))]_vars

C11_Witness ==
    /\ call.op = "swap_to_zec"
    /\ call.level_arg = "None"
    /\ privacy_preferences.default_level = "transparent"
    /\ call.privacy_level = "transparent"
    /\ signed_intent # <<>>
    /\ signed_intent[1].shield_params = <<>>
    /\ result = Return

\* C12: every commitment create_shielded_token_diff_quote returns has shielding
\* parameters if and only if the effective privacy options (the caller's, or the
\* defaults when none are passed) have enabled = true, and then they carry the
\* options' memo and viewing key; with enabled = false the commitment has no
\* shielding parameters, so no memo and no viewing key, even when the caller's
\* options held them.
C12_EffectiveOptions ==
    IF call.op = "create_shielded_token_diff_quote"
    THEN DefaultShieldOptions(call.shield_options, call.token_in, call.token_out)
    ELSE SwapShieldOptions(call.privacy_level, call.token_in, call.token_out)

C12_ParamsIffEnabled ==
    signed_intent # <<>> =>
        LET params == signed_intent[1].shield_params
            opts   == C12_EffectiveOptions
        IN  /\ params # <<>> <=> opts.enabled
            /\ opts.enabled =>
                  params = <<[shielded |-> TRUE, memo |-> opts.memo,
                              viewing_key |-> opts.viewing_key]>>
            /\ ~opts.enabled => params = <<>>

C12_Witness ==
    /\ call.op = "create_shielded_token_diff_quote"
    /\ call.shield_options = <<ShieldingOptions(FALSE, <<"memo">>, <<"vk">>)>>
    /\ call.token_out = "ZEC"
    /\ signed_intent # <<>>
    /\ signed_intent[1].shield_params = <<>>

\* C13: in every built commitment the payload is exactly the text that was
\* signed, a serialization of a quote with the signer's id, the verifying
\* contract, the call's intents and one nonce and deadline; signature and public
\* key are the signer's, so the signature verifies against the commitment's own
\* payload and public key and against no other payload.
C13_Verifies(signature, public_key, payload) ==
    /\ signature.scheme = "ed25519" /\ public_key.scheme = "ed25519"
    /\ signature.key = public_key.key
    /\ signature.signed = payload

\* serializations of the quote q and of quotes that differ from it in one field
C13_Payloads(q) ==
    { json_dumps([q EXCEPT !.nonce = n]) : n \in Nonces } \cup
    { json_dumps([q EXCEPT !.deadline = t + d]) : t \in NowMs, d \in {DeadlineWindowMs, 1} } \cup
    { json_dumps([q EXCEPT !.signer_id = a]) : a \in {Account.account_id, "mallory.near"} } \cup
    { json_dumps([q EXCEPT !.intents = i]) : i \in {q.intents, <<>>} }

C13_SignatureMatchesPayload ==
    signed_intent # <<>> =>
        LET c == signed_intent[1]
        IN  /\ c.payload = c.signature.signed
            /\ \E n \in Nonces, t \in NowMs :
                  c.payload =
                      json_dumps([nonce |-> n, signer_id |-> Account.account_id,
                                  verifying_contract |-> "intents.near",
                                  deadline |-> t + DeadlineWindowMs,
                                  intents |-> QuoteOf(c).intents])
            /\ c.public_key = [scheme |-> "ed25519", key |-> Account.public_key]
            /\ C13_Verifies(c.signature, c.public_key, c.payload)
            /\ \A p \in C13_Payloads(QuoteOf(c)) \ {c.payload} :
                  ~C13_Verifies(c.signature, c.public_key, p)

C13_Witness ==
    /\ call.op = "swap_from_zec"
    /\ signed_intent # <<>>
    /\ pc = "done"
    /\ result = Return
    /\ Cardinality(C13_Payloads(QuoteOf(signed_intent[1]))) > 1
    /\ C13_Verifies(signed_intent[1].signature, signed_intent[1].public_key,
                    signed_intent[1].payload)

\* C14: across the commitments built one after another for the same signer, no
\* two carry the same nonce: the commitments the caller has kept have distinct
\* nonces, and a commitment just built has a nonce that none of the kept ones has.
C14_NoncesNeverRepeat ==
    /\ \A i, j \in 1..Len(kept_nonces) : i # j => kept_nonces[i] # kept_nonces[j]
    /\ signed_intent # <<>> =>
          \A i \in 1..Len(kept_nonces) : kept_nonces[i] # QuoteOf(signed_intent[1]).nonce

\* ZcashAgent.get_portfolio(), the balance queries answered as in queries
GetPortfolio ==
    /\ pc = "idle"
    /\ \E queries \in AllQueries :
         /\ portfolio' = Portfolios[queries]
         /\ returned' = Portfolios[queries]
         /\ call' = [NoCall EXCEPT !.op = "get_portfolio", !.queries = queries]
    /\ pc' = "done"
    /\ result' = Return
    /\ UNCHANGED <<request, options, best_option, signed_intent, log, ret, relay, privacy_preferences, kept_nonces, min_deadline_ms, serialized, threads>>

\* ZcashAgent.analyze_portfolio(), the balance queries answered as in queries
AnalyzePortfolio ==
    /\ pc = "idle"
    /\ \E queries \in AllQueries :
         /\ portfolio' = Portfolios[queries]
         /\ returned' = Analyses[queries]
         /\ call' = [NoCall EXCEPT !.op = "analyze_portfolio", !.queries = queries]
    /\ pc' = "done"
    /\ result' = Return
    /\ UNCHANGED <<request, options, best_option, signed_intent, log, ret, relay, privacy_preferences, kept_nonces, min_deadline_ms, serialized, threads>>

\* the agent under reads of its portfolio
PortfolioNext == GetPortfolio \/ AnalyzePortfolio \/ Finish

PortfolioSpec == Init /\ [][PortfolioNext]_vars

\* to_decimals(amount, ASSET_MAP[token]["decimals"]) on a positive amount
ToDecimals ==
    /\ pc = "idle"
    /\ \E token \in DOMAIN ASSET_MAP, amount \in PositiveAmounts :
         /\ call' = [NoCall EXCEPT !.op = "to_decimals", !.token_in = token,
                                   !.amount_in = amount]
         /\ returned' = [on_chain |-> to_decimals(amount, ASSET_MAP[token].decimals)]
    /\ pc' = "encoded"
    /\ result' = Return
    /\ UNCHANGED <<request, options, best_option, signed_intent, log, ret, relay, privacy_preferences, kept_nonces, min_deadline_ms, serialized, portfolio, threads>>

\* from_decimals on the string to_decimals gave, with the same decimals
FromDecimals ==
    /\ pc = "encoded"
    /\ call' = [call EXCEPT !.op = "from_decimals"]
    /\ returned' = [on_chain |-> returned.on_chain,
                    amount   |-> from_decimals(returned.on_chain,
                                               ASSET_MAP[call.token_in].decimals)]
    /\ pc' = "done"
    /\ result' = Return
    /\ UNCHANGED <<request, options, best_option, signed_intent, log, ret, relay, privacy_preferences, kept_nonces, min_deadline_ms, serialized, portfolio, threads>>

\* the amount codec alone
CodecNext == ToDecimals \/ FromDecimals \/ Finish

CodecSpec == Init /\ [][CodecNext]_vars

(***************************************************************************)
(* Two threads call set_privacy_preferences on the same agent.  The method *)
(* takes no lock, so the interpreter may switch threads between two turns  *)
(* of the loop; a turn (the test and the item assignment) is one step.     *)
(***************************************************************************)
\* the dicts the two threads pass
ConcurrentUpdates ==
    {[default_level |-> "transparent", auto_shield |-> FALSE],
     [default_level |-> "default", auto_shield |-> TRUE, theme |-> "dark"],
     [memos_enabled |-> FALSE]}

ThreadIds == {1, 2}

\* both threads enter set_privacy_preferences
StartUpdates ==
    /\ pc = "idle"
    /\ \E first \in ConcurrentUpdates, second \in ConcurrentUpdates, order \in KeyOrders :
         threads' = [before |-> privacy_preferences,
                     order  |-> order,
                     calls  |-> <<[preferences |-> first, at |-> 1],
                                  [preferences |-> second, at |-> 1]>>]
    /\ call' = [NoCall EXCEPT !.op = "set_privacy_preferences"]
    /\ pc' = "updating"
    /\ UNCHANGED <<request, options, best_option, signed_intent, log, ret, result, relay, privacy_preferences, kept_nonces, min_deadline_ms, serialized, portfolio, returned>>

\* thread t takes one turn of its loop
UpdateKey(t) ==
    /\ pc = "updating"
    /\ threads.calls[t].at <= Len(threads.order)
    /\ privacy_preferences' =
           set_privacy_preferences_key(privacy_preferences, threads.calls[t].preferences,
                                       threads.order[threads.calls[t].at])
    /\ threads' = [threads EXCEPT !.calls[t].at = @ + 1]
    /\ UNCHANGED <<pc, call, request, options, best_option, signed_intent, log, ret, result, relay, kept_nonces, min_deadline_ms, serialized, portfolio, returned>>

\* both calls have returned
UpdatesReturn ==
    /\ pc = "updating"
    /\ \A t \in ThreadIds : threads.calls[t].at > Len(threads.order)
    /\ pc' = "done"
    /\ result' = Return
    /\ UNCHANGED <<call, request, options, best_option, signed_intent, log, ret, relay, privacy_preferences, kept_nonces, min_deadline_ms, serialized, portfolio, returned, threads>>

ThreadsNext ==
    \/ StartUpdates
    \/ \E t \in ThreadIds : UpdateKey(t)
    \/ UpdatesReturn
    \/ Finish

ThreadsSpec == Init /\ [][ThreadsNext]_vars

\* ZcashAgent(account_file): on success the caller has a new agent
NewZcashAgent ==
    /\ pc = "idle"
    /\ \E setup \in Setups :
         /\ call' = [NoCall EXCEPT !.op = "__init__", !.setup = setup]
         /\ result' = ZcashAgentInit(setup)
         /\ IF ZcashAgentInit(setup) = Return
            THEN privacy_preferences' = NewAgentPreferences /\ portfolio' = <<>>
            ELSE UNCHANGED <<privacy_preferences, portfolio>>
    /\ pc' = "done"
    /\ UNCHANGED <<request, options, best_option, signed_intent, log, ret, relay, kept_nonces, min_deadline_ms, serialized, returned, threads>>

\* ZcashAgent.deposit_near(amount)
DepositNear ==
    /\ pc = "idle"
    /\ \E amount \in Amounts, setup \in Setups :
         /\ call' = [NoCall EXCEPT !.op = "deposit_near", !.amount_in = amount,
                                   !.setup = setup]
         /\ result' = deposit_near(amount, setup).outcome
         /\ log' = deposit_near(amount, setup).log
    /\ pc' = "done"
    /\ UNCHANGED <<request, options, best_option, signed_intent, ret, relay, privacy_preferences, kept_nonces, min_deadline_ms, serialized, portfolio, returned, threads>>

\* the setup operations alone
SetupNext == NewZcashAgent \/ DepositNear \/ Finish

SetupSpec == Init /\ [][SetupNext]_vars

\* the agent's swaps, between updates of the preferences other than default_level
AgentNext ==
    \/ SwapToZec
    \/ SwapFromZec
    \/ FetchOptions
    \/ SelectOption
    \/ BuildAndSign
    \/ Publish
    \/ SetPrivacyPreferences(OtherUpdates)
    \/ Finish

AgentSpec == Init /\ [][AgentNext]_vars

\* the agent under updates of its privacy preferences alone
PrefsNext == SetPrivacyPreferences(AllUpdates) \/ Finish

PrefsSpec == Init /\ [][PrefsNext]_vars

\* C15: serialize returns a structure with the asset identifiers under "assets",
\* the input amount under "amounts", a deadline of type "relative" with the
\* builder's milliseconds, an "out" amount if and only if the builder holds a
\* target output amount and a "slippage" if and only if it holds one (a builder
\* without input or output asset makes it raise KeyError instead); serialize
\* leaves the builder as it is and a second call in a row returns an equal
\* structure; a structure already returned is not altered by later set_asset_in
\* or set_asset_out calls.
C15_Shape(v, req, ms) ==
    /\ DOMAIN v = {"assets", "amounts", "deadline"}
                    \cup (IF "slippage" \in DOMAIN req THEN {"slippage"} ELSE {})
    /\ DOMAIN v.assets = {"in", "out"}
    /\ v.assets["in"] = req.assetIn /\ v.assets["out"] = req.assetOut
    /\ DOMAIN v.amounts = {"in"} \cup (IF "amountOut" \in DOMAIN req THEN {"out"} ELSE {})
    /\ v.amounts["in"] = req.amountIn
    /\ "amountOut" \in DOMAIN req => v.amounts["out"] = req.amountOut
    /\ v.deadline = [type |-> "relative", ms |-> ms]
    /\ "slippage" \in DOMAIN req => v.slippage = req.slippage

C15_Returned == call.op = "serialize" /\ result = Return

C15_SerializeIsPure ==
    /\ [](call.op = "serialize" =>
            IF RequiredKeys \subseteq DOMAIN request
            THEN /\ result = Return
                 /\ serialized # <<>>
                 /\ serialized[1].later = 0
                 /\ C15_Shape(serialized[1].seen, request, min_deadline_ms)
            ELSE result = Raise("KeyError"))
    /\ [](serialized # <<>> =>
            Content(serialized[1].object, request, min_deadline_ms) = serialized[1].seen)
    /\ [][(pc = "builder" /\ call'.op = "serialize") =>
            /\ request' = request
            /\ min_deadline_ms' = min_deadline_ms
            /\ C15_Returned => (result' = Return /\ serialized'[1].seen = serialized[1].seen)]_vars

C15_Witness ==
    /\ pc = "builder"
    /\ serialized # <<>>
    /\ serialized[1].later = 1
    /\ call.op = "set_asset_out"
    /\ result = Return
    /\ "out" \notin DOMAIN serialized[1].seen.amounts
    /\ "amountOut" \in DOMAIN request
    /\ "slippage" \in DOMAIN serialized[1].seen

\* C16: after any sequence of set_privacy_preferences calls with arbitrary
\* dictionaries the preferences hold exactly the four recognized keys; a call
\* gives each recognized key of the update the supplied value and leaves each
\* recognized key that the update lacks at its previous value; a key that is not
\* recognized is never stored, and nothing else changes the preferences.
C16_SetCall == pc = "idle" /\ call'.op = "set_privacy_preferences"

C16_OnlyRecognizedKeys ==
    /\ [](DOMAIN privacy_preferences = valid_keys)
    /\ [][IF C16_SetCall
          THEN \A key \in valid_keys :
                  privacy_preferences'[key] =
                      IF key \in DOMAIN call'.preferences
                      THEN call'.preferences[key]
                      ELSE privacy_preferences[key]
          ELSE privacy_preferences' = privacy_preferences]_vars

C16_Witness ==
    /\ call.op = "set_privacy_preferences"
    /\ DOMAIN call.preferences = {"auto_shield", "theme"}
    /\ privacy_preferences.auto_shield = FALSE
    /\ privacy_preferences.default_level = "transparent"
    /\ privacy_preferences.viewing_keys # <<>>

\* C17: get_portfolio never fails as a whole: whatever balance queries fail, it
\* returns a map with exactly one entry for every registered asset, 0.0 for each
\* asset whose query failed and the converted balance for each asset whose query
\* succeeded (0.0 when the reply carries no balance).
C17_Converted(token, reply) ==
    LET key == IF token = "NEAR" THEN "amount" ELSE "result"
    IN  IF reply # <<>> /\ key \in DOMAIN reply[1]
        THEN from_decimals(reply[1][key], ASSET_MAP[token].decimals)
        ELSE Zero

C17_PortfolioNeverFails ==
    call.op = "get_portfolio" =>
        /\ result = Return
        /\ DOMAIN returned = DOMAIN ASSET_MAP
        /\ portfolio = returned
        /\ \A token \in DOMAIN ASSET_MAP :
              returned[token] =
                  IF call.queries[token].kind = "raise" THEN Zero
                  ELSE C17_Converted(token, call.queries[token].reply)

C17_Witness ==
    /\ call.op = "get_portfolio"
    /\ call.queries["USDC"].kind = "raise"
    /\ call.queries["NEAR"].kind = "return"
    /\ call.queries["ZEC"].kind = "return"
    /\ returned = [USDC |-> Zero,
                   NEAR |-> [neg |-> FALSE, m |-> <<1>>, e |-> 1],
                   ZEC  |-> [neg |-> FALSE, m |-> <<3>>, e |-> -1]]

\* C18: the privacy ratio reported by analyze_portfolio is the value of the
\* privacy-capable assets divided by the total portfolio value, times 100, both
\* values in the unit of the reported total_value_near (balances weighted by the
\* fixed exchange rates), and 0 when the total value is 0.
C18_PrivacyCapableValue(balances) ==
    LET capable == {token \in DOMAIN balances : PrivacyCapable(token)}
    IN  IF capable = {} THEN Zero
        ELSE LET token == CHOOSE t \in capable : TRUE
             IN  ValueNear(token, balances[token])

C18_RatioOfValues ==
    call.op = "analyze_portfolio" =>
        returned.privacy_ratio =
            IF NonPositive(returned.total_value_near) THEN Zero
            ELSE FloatMul(FloatDiv(C18_PrivacyCapableValue(returned.portfolio),
                                   returned.total_value_near), Hundred)

\* C19: for every registered asset and every positive amount,
\* from_decimals(to_decimals(amount, decimals), decimals) differs from amount by
\* less than one unit of the asset's smallest denomination (10 ** -decimals).
C19_RoundTripWithinOneUnit ==
    call.op = "from_decimals" =>
        DiffersByLessThanOneUnit(returned.amount, call.amount_in,
                                 ASSET_MAP[call.token_in].decimals)

\* C20: every built commitment contains exactly one intent, of kind token_diff,
\* whose diff map has exactly two entries, a debit for the input asset and a
\* credit for the output asset, for every pair of input and output symbols the
\* swap entry points accept, equal symbols included.
C20_OneIntentTwoEntries ==
    (call.op \in SwapOps /\ signed_intent # <<>>) =>
        LET intents == QuoteOf(signed_intent[1]).intents
        IN  /\ Len(intents) = 1
            /\ intents[1].intent = "token_diff"
            /\ Cardinality(DOMAIN intents[1].diff) = 2
            /\ intents[1].diff[get_asset_id(call.token_in)].sign = "-"
            /\ intents[1].diff[get_asset_id(call.token_out)].sign = ""

\* C21: when two set_privacy_preferences calls run at the same time on one
\* agent, the preferences they leave are those of the two updates applied one
\* after the other, in one of the two orders, never a mixture of keys from one
\* update and keys from the other.
C21_Serial(first, second) ==
    set_privacy_preferences(set_privacy_preferences(threads.before, first), second)

C21_UpdatesAreSerializable ==
    (pc = "done" /\ threads # <<>>) =>
        \/ privacy_preferences =
               C21_Serial(threads.calls[1].preferences, threads.calls[2].preferences)
        \/ privacy_preferences =
               C21_Serial(threads.calls[2].preferences, threads.calls[1].preferences)

\* C22: an "already registered" error of a setup operation is success and any
\* other setup error propagates.  In _register_with_intents a registration
\* error that says the key already exists or is already registered lets the
\* initialization go on, any other ends it with that error; in deposit_near a
\* storage registration error that says "already registered" is followed by the
\* deposit call, while any other registration error, an amount that is not
\* positive or a balance below the amount makes deposit_near fail without the
\* deposit call.
C22_SaysAlreadyRegistered == {"KeyExists", "AlreadyRegistered", "AlreadyRegisteredTitle"}

C22_SaysStorageRegistered == {"AlreadyRegistered", "AlreadyRegisteredTitle"}

C22_RegistrationReached ==
    /\ call.op = "__init__"
    /\ _load_account(call.setup) = Return
    /\ _validate_account(call.setup) = Return

C22_BalanceBelowAmount ==
    \/ call.setup.state.kind = "raise"
    \/ call.setup.state.reply = <<>>
    \/ call.setup.state.reply[1] = <<>>
    \/ FloatLess(BalanceNear(call.setup.state.reply[1]), call.amount_in)

C22_AlreadyRegisteredIsSuccess ==
    /\ C22_RegistrationReached =>
          IF \/ call.setup.register = Return
             \/ call.setup.register.error \in C22_SaysAlreadyRegistered
          THEN result = Return
          ELSE result = call.setup.register
    /\ call.op = "deposit_near" =>
          IF NonPositive(call.amount_in) THEN
              result.kind = "raise" /\ log = <<>>
          ELSE IF C22_BalanceBelowAmount THEN
              result.kind = "raise" /\ ~HasStep("intent_deposit")
          ELSE IF /\ call.setup.register.kind = "raise"
                  /\ call.setup.register.error \notin C22_SaysStorageRegistered
          THEN result = call.setup.register /\ ~HasStep("intent_deposit")
          ELSE /\ log = <<"state", "register_token_storage", "intent_deposit">>
               /\ result = call.setup.deposit

C22_Witness ==
    /\ call.op = "deposit_near"
    /\ call.setup.register = Raise("AlreadyRegisteredTitle")
    /\ HasStep("intent_deposit")
    /\ result = Return

\* C23: auto_shield, memos_enabled and viewing_keys have no influence on a swap:
\* the shielding parameters of the commitment an agent's swap builds are those
\* the call's symbols and level give, whatever the three preferences are, so two
\* agents that differ only in them build commitments with the same shielding
\* parameters; a shielded swap carries the memo "Swap <in> to <out>" and no
\* viewing key, also when memos_enabled is false; and no step of a swap changes
\* privacy_preferences.
C23_ShieldParams(privacy_level, token_in, token_out) ==
    IF privacy_level = "shielded" /\ (token_in = "ZEC" \/ token_out = "ZEC")
    THEN << [shielded    |-> TRUE,
             memo        |-> <<"Swap " \o token_in \o " to " \o token_out>>,
             viewing_key |-> <<>>] >>
    ELSE <<>>

C23_SwapStep == pc \in {"fetch", "select", "sign", "publish"} \/ call'.op \in AgentOps

====
